---- MODULE Spec2Model ----
(***************************************************************************)
(* Model of the matchmaking / signaling server of                          *)
(* src/src/lib/supabase/admin.ts: the Connection Registry (users), the     *)
(* Waiting Pool (waitingPool), the Room Registry (rooms), the Matchmaker   *)
(* (tryMatch) and the socket event handlers.  Every handler runs to        *)
(* completion (single-threaded event loop), so one handler is one action;  *)
(* the only suspension point is the await inside initiate-report.          *)
(***************************************************************************)
EXTENDS Integers, Sequences, FiniteSets, TLC

\* ------------------------------------------------------------------ bounds
MaxConns == 4       \* connections accepted over the server's lifetime
MaxRooms == 3       \* rooms (uuids) created over the server's lifetime
MaxPending == 1     \* report calls awaited at the same time
MaxSearchers == 5   \* connections accepted when only searches are played
MaxPool == 3        \* longest Waiting Pool handed to a lone tryMatch pass

\* --------------------------------------------------------------- constants
Undefined == 0      \* an absent roomId / the result of a failed find()

ConnIds == 1..MaxConns
RoomIds == 1..MaxRooms

\* the profile (Profile & { id: string }) the client on a socket supplies:
\* every client has its own username and database id
ProfileOf(socketId) == [username |-> socketId, id |-> socketId]

\* payloads of initiate-report: the screenshot is either bytes or missing
Screenshots == {"bytes", "undefined"}

VARIABLES
  users,        \* Map<string, User>: connection id -> User
  waitingPool,  \* string[]: connection ids waiting for a partner
  rooms,        \* Map<string, {users:[string,string]}>
  uuid,         \* number of room ids handed out by uuidv4()
  sockets,      \* number of socket ids handed out by the transport
  pending,      \* connection id -> report calls it is awaiting
  emitted,      \* notifications sent by the last handler, in program order
  arrivals      \* the order in which ids entered the Waiting Pool; kept only
                \* by the specifications that check arrival order

vars == <<users, waitingPool, rooms, uuid, sockets, pending, emitted, arrivals>>

\* ------------------------------------------------------------- data model
\* interface User: optional profile / persistentId are <<>> when absent
NewUser == [state |-> "IDLE", roomId |-> Undefined,
            profile |-> <<>>, persistentId |-> <<>>]

\* JavaScript truthiness of an optional string (database ids are non-empty)
Truthy(opt) == opt # <<>>

\* an outbound notification io.to(to).emit(name, payload)
Msg(to, name) == [to |-> to, name |-> name, roomId |-> Undefined,
                  partnerId |-> Undefined, initiator |-> FALSE,
                  partnerProfile |-> <<>>]

\* mutant of MatchFound: both sides are told to initiate
MatchFoundAlwaysInitiator(to, roomId, partnerId, initiator, partnerProfile) ==
  [to |-> to, name |-> "match-found", roomId |-> roomId,
   partnerId |-> partnerId, initiator |-> TRUE,
   partnerProfile |-> partnerProfile]

MatchFound(to, roomId, partnerId, initiator, partnerProfile) ==
  [to |-> to, name |-> "match-found", roomId |-> roomId,
   partnerId |-> partnerId, initiator |-> initiator,
   partnerProfile |-> partnerProfile]

\* the server state a handler works on
Cur == [users |-> users, waitingPool |-> waitingPool, rooms |-> rooms,
        uuid |-> uuid, emitted |-> <<>>]

\* ---------------------------------------------------------- array helpers
\* waitingPool.includes(id)
Includes(pool, id) == \E k \in 1..Len(pool) : pool[k] = id

\* waitingPool.indexOf(id), 0 when absent
IndexOf(pool, id) ==
  IF Includes(pool, id)
  THEN CHOOSE k \in 1..Len(pool) :
         pool[k] = id /\ \A j \in 1..(k-1) : pool[j] # id
  ELSE 0

\* mutant of Splice: the entry is left in the array
SpliceNothing(pool, id) == pool

\* index = indexOf(id); if (index > -1) splice(index, 1)
Splice(pool, id) ==
  LET k == IndexOf(pool, id)
  IN IF k > 0
     THEN SubSeq(pool, 1, k-1) \o SubSeq(pool, k+1, Len(pool))
     ELSE pool

\* mutant of Unshift: the id is added at the back
PushBack(pool, id) == pool \o <<id>>

\* waitingPool.unshift(id)
Unshift(pool, id) == <<id>> \o pool

\* mutant of UnshiftIfAbsent: the id is added at the back
AppendIfAbsent(pool, id) == IF Includes(pool, id) THEN pool ELSE pool \o <<id>>

\* if (!waitingPool.includes(id)) waitingPool.unshift(id)
UnshiftIfAbsent(pool, id) == IF Includes(pool, id) THEN pool ELSE Unshift(pool, id)

\* mutant of PushIfAbsent: a new searcher is put at the front
PushAtFrontIfAbsent(pool, id) == IF Includes(pool, id) THEN pool ELSE <<id>> \o pool

\* if (!waitingPool.includes(id)) waitingPool.push(id)
PushIfAbsent(pool, id) == IF Includes(pool, id) THEN pool ELSE Append(pool, id)

\* room.users.find(id => id !== socketId)
FindPartner(room, socketId) ==
  IF room[1] # socketId THEN room[1]
  ELSE IF room[2] # socketId THEN room[2]
  ELSE Undefined

\* map.delete(key)
MapDelete(map, key) == [k \in (DOMAIN map) \ {key} |-> map[k]]

\* ------------------------------------------------------------- Matchmaker
\* mutant of IsSearching: only the registry lookup, not the state, is checked
IsLive(us, id) == id \in DOMAIN us

\* user && user.state === 'SEARCHING' (lines 75 and 79)
IsSearching(us, id) == id \in DOMAIN us /\ us[id].state = "SEARCHING"

RECURSIVE tryMatch(_)
tryMatch(s) ==
  IF Len(s.waitingPool) < 2 THEN s
  ELSE
    LET user1Id == s.waitingPool[1]
        user2Id == s.waitingPool[2]
        rest    == SubSeq(s.waitingPool, 3, Len(s.waitingPool))
    IN IF ~IsSearching(s.users, user1Id)
       THEN tryMatch([s EXCEPT !.waitingPool = Unshift(rest, user2Id)])
       ELSE IF ~IsSearching(s.users, user2Id)
       THEN tryMatch([s EXCEPT !.waitingPool = Unshift(rest, user1Id)])
       ELSE
         LET roomId == s.uuid + 1
             us1 == [s.users EXCEPT ![user1Id].state = "IN_CHAT",
                                    ![user1Id].roomId = roomId]
             us2 == [us1 EXCEPT ![user2Id].state = "IN_CHAT",
                                ![user2Id].roomId = roomId]
         IN tryMatch([s EXCEPT
              !.waitingPool = rest,
              !.rooms = (roomId :> <<user1Id, user2Id>>) @@ s.rooms,
              !.users = us2,
              !.uuid = roomId,
              !.emitted = @ \o
                <<MatchFound(user1Id, roomId, user2Id, TRUE,
                             s.users[user2Id].profile),
                  MatchFound(user2Id, roomId, user1Id, FALSE,
                             s.users[user1Id].profile)>>])

\* --------------------------------------------------------------- handlers
\* mutant of Requeued: the requeued partner keeps its roomId
RequeuedKeepingRoom(us, id) == [us EXCEPT ![id].state = "SEARCHING"]

\* partner.state = 'SEARCHING'; delete partner.roomId
Requeued(us, id) == [us EXCEPT ![id].state = "SEARCHING", ![id].roomId = Undefined]

\* user.state === 'IN_CHAT' && user.roomId && rooms.get(user.roomId)
HasRoom(s, socketId) ==
  LET user == s.users[socketId]
  IN /\ user.state = "IN_CHAT"
     /\ user.roomId # Undefined
     /\ user.roomId \in DOMAIN s.rooms

\* the partner a handler finds through the acting user's room, or Undefined
\* when the handler gives up before that (no room, or find() fails)
ChatPartner(s, socketId) ==
  IF HasRoom(s, socketId)
  THEN FindPartner(s.rooms[s.users[socketId].roomId], socketId)
  ELSE Undefined

\* handleDisconnect reaches its call of tryMatch (line 120)
disconnectRequeues(s, socketId) ==
  /\ ChatPartner(s, socketId) # Undefined
  /\ ChatPartner(s, socketId) \in DOMAIN s.users

\* handleDisconnect up to its call of tryMatch (lines 98-119)
disconnectCleanup(s, socketId) ==
  LET partnerId == ChatPartner(s, socketId)
      s1 == [s EXCEPT !.waitingPool = Splice(@, socketId)]
  IN IF partnerId = Undefined THEN s1
     ELSE
       LET s2 == [s1 EXCEPT !.emitted =
                    Append(@, Msg(partnerId, "partner-disconnected"))]
       IN IF partnerId \in DOMAIN s2.users
          THEN [s2 EXCEPT
                 !.users = Requeued(@, partnerId),
                 !.waitingPool = Unshift(@, partnerId),
                 !.emitted = Append(@, Msg(partnerId, "auto-searching"))]
          ELSE s2

\* mutant of handleDisconnect: the pool entry of the socket is not removed
handleDisconnectKeepingEntry(s, socketId) ==
  [s EXCEPT !.users = MapDelete(@, socketId)]

handleDisconnect(s, socketId) ==
  LET s1 == disconnectCleanup(s, socketId)
      s2 == IF disconnectRequeues(s, socketId) THEN tryMatch(s1) ELSE s1
      s3 == IF HasRoom(s, socketId)
            THEN [s2 EXCEPT !.rooms = MapDelete(@, s.users[socketId].roomId)]
            ELSE s2
  IN [s3 EXCEPT !.users = MapDelete(@, socketId)]

\* start-searching up to its call of tryMatch (lines 137-142)
startSearchingEnqueue(s, socketId, profile) ==
  [s EXCEPT
    !.users = [@ EXCEPT ![socketId].state = "SEARCHING",
                        ![socketId].profile = <<profile>>,
                        ![socketId].persistentId = <<profile.id>>],
    !.waitingPool = PushIfAbsent(@, socketId)]

\* mutant of startSearching: the Matchmaker is not invoked
startSearchingWithoutMatch(s, socketId, profile) ==
  LET user == s.users[socketId]
  IN IF user.state = "IDLE" \/ user.state = "SEARCHING"
     THEN startSearchingEnqueue(s, socketId, profile)
     ELSE s

startSearching(s, socketId, profile) ==
  LET user == s.users[socketId]
  IN IF user.state = "IDLE" \/ user.state = "SEARCHING"
     THEN tryMatch(startSearchingEnqueue(s, socketId, profile))
     ELSE s

\* mutant of stopSearching: the state of the user is not checked
stopSearchingAnyState(s, socketId) ==
  [s EXCEPT !.waitingPool = Splice(@, socketId),
            !.users = [@ EXCEPT ![socketId].state = "IDLE"]]

stopSearching(s, socketId) ==
  LET user == s.users[socketId]
  IN IF user.state = "SEARCHING"
     THEN [s EXCEPT !.waitingPool = Splice(@, socketId),
                    !.users = [@ EXCEPT ![socketId].state = "IDLE"]]
     ELSE s

\* skip-chat past its guards, up to its call of tryMatch (lines 171-187)
skipChatCleanup(s, socketId) ==
  LET partnerId == ChatPartner(s, socketId)
      roomId == s.users[socketId].roomId
      s1 == [s EXCEPT
              !.emitted = @ \o <<Msg(partnerId, "partner-disconnected"),
                                 Msg(socketId, "auto-searching")>>,
              !.users = Requeued(@, socketId),
              !.waitingPool = PushIfAbsent(@, socketId)]
      s2 == IF partnerId \in DOMAIN s1.users
            THEN [s1 EXCEPT
                   !.users = Requeued(@, partnerId),
                   !.waitingPool = UnshiftIfAbsent(@, partnerId),
                   !.emitted = Append(@, Msg(partnerId, "auto-searching"))]
            ELSE s1
  IN [s2 EXCEPT !.rooms = MapDelete(@, roomId)]

skipChat(s, socketId) ==
  IF ChatPartner(s, socketId) = Undefined THEN s
  ELSE tryMatch(skipChatCleanup(s, socketId))

\* stop-chat past its guards, up to its call of tryMatch (lines 202-214)
stopChatCleanup(s, socketId) ==
  LET partnerId == ChatPartner(s, socketId)
      roomId == s.users[socketId].roomId
      s1 == [s EXCEPT
              !.emitted = Append(@, Msg(partnerId, "partner-disconnected")),
              !.users = [@ EXCEPT ![socketId].state = "IDLE",
                                  ![socketId].roomId = Undefined]]
      s2 == IF partnerId \in DOMAIN s1.users
            THEN [s1 EXCEPT
                   !.users = Requeued(@, partnerId),
                   !.waitingPool = UnshiftIfAbsent(@, partnerId),
                   !.emitted = Append(@, Msg(partnerId, "auto-searching"))]
            ELSE s1
  IN [s2 EXCEPT !.rooms = MapDelete(@, roomId)]

stopChat(s, socketId) ==
  IF ChatPartner(s, socketId) = Undefined THEN s
  ELSE tryMatch(stopChatCleanup(s, socketId))

\* the guard of initiate-report (line 235)
ReportValid(s, socketId, partnerId) ==
  LET user == s.users[socketId]
  IN /\ user.state = "IN_CHAT"
     /\ user.roomId # Undefined
     /\ partnerId \in DOMAIN s.users
     /\ Truthy(user.persistentId)
     /\ Truthy(s.users[partnerId].persistentId)

\* mutant of reportCleanup: the room of the reporter is left registered
reportCleanupKeepingRoom(s, socketId, partnerId) ==
  LET us1 == [s.users EXCEPT ![socketId].state = "IDLE",
                             ![socketId].roomId = Undefined]
  IN [s EXCEPT
       !.emitted = @ \o <<Msg(partnerId, "partner-disconnected"),
                          Msg(socketId, "partner-disconnected"),
                          Msg(partnerId, "auto-searching")>>,
       !.users = Requeued(us1, partnerId),
       !.waitingPool = UnshiftIfAbsent(@, partnerId)]

\* initiate-report past its guard, up to its call of tryMatch (lines 238-249)
reportCleanup(s, socketId, partnerId) ==
  LET roomId == s.users[socketId].roomId
      us1 == [s.users EXCEPT ![socketId].state = "IDLE",
                             ![socketId].roomId = Undefined]
  IN [s EXCEPT
       !.emitted = @ \o <<Msg(partnerId, "partner-disconnected"),
                          Msg(socketId, "partner-disconnected"),
                          Msg(partnerId, "auto-searching")>>,
       !.users = Requeued(us1, partnerId),
       !.waitingPool = UnshiftIfAbsent(@, partnerId),
       !.rooms = MapDelete(@, roomId)]

\* the synchronous part of initiate-report, up to the try block
initiateReport(s, socketId, partnerId) ==
  IF ~ReportValid(s, socketId, partnerId) THEN s
  ELSE tryMatch(reportCleanup(s, socketId, partnerId))

\* ---------------------------------------------------------------- actions
\* install the state a handler returns
Becomes(s) ==
  /\ s.uuid <= MaxRooms
  /\ users' = s.users
  /\ waitingPool' = s.waitingPool
  /\ rooms' = s.rooms
  /\ uuid' = s.uuid
  /\ emitted' = s.emitted

Connected == DOMAIN users

\* the transport hands out the next socket id and the user is registered
Accept(limit) ==
  /\ sockets < limit
  /\ sockets' = sockets + 1
  /\ users' = (sockets + 1 :> NewUser) @@ users
  /\ emitted' = <<>>
  /\ UNCHANGED <<waitingPool, rooms, uuid, pending, arrivals>>

Connection == Accept(MaxConns)

StartSearching ==
  \E id \in Connected :
    /\ Becomes(startSearching(Cur, id, ProfileOf(id)))
    /\ UNCHANGED <<sockets, pending, arrivals>>

StopSearching ==
  \E id \in Connected :
    /\ Becomes(stopSearching(Cur, id))
    /\ UNCHANGED <<sockets, pending, arrivals>>

SkipChat ==
  \E id \in Connected :
    /\ Becomes(skipChat(Cur, id))
    /\ UNCHANGED <<sockets, pending, arrivals>>

StopChat ==
  \E id \in Connected :
    /\ Becomes(stopChat(Cur, id))
    /\ UNCHANGED <<sockets, pending, arrivals>>

PendingTotal(p) == Cardinality({<<i, k>> \in ConnIds \X (1..MaxPending) : k <= p[i]})

\* initiate-report up to the await: an invalid request returns at once, a
\* missing screenshot makes Buffer.from throw inside the try (report-failed
\* in the same tick), otherwise the handler suspends on the report call
InitiateReport ==
  \E id \in Connected, partnerId \in ConnIds, screenshot \in Screenshots :
    LET valid == ReportValid(Cur, id, partnerId)
        s == initiateReport(Cur, id, partnerId)
    IN /\ UNCHANGED <<sockets, arrivals>>
       /\ IF ~valid
          THEN Becomes(s) /\ UNCHANGED pending
          ELSE IF screenshot = "undefined"
          THEN /\ Becomes([s EXCEPT !.emitted = Append(@, Msg(id, "report-failed"))])
               /\ UNCHANGED pending
          ELSE /\ PendingTotal(pending) < MaxPending
               /\ Becomes(s)
               /\ pending' = [pending EXCEPT ![id] = @ + 1]

\* the report call settles: the rest of the try block or the catch block
ReportReturns ==
  \E id \in ConnIds, error \in BOOLEAN :
    /\ pending[id] > 0
    /\ pending' = [pending EXCEPT ![id] = @ - 1]
    /\ emitted' = <<Msg(id, IF error THEN "report-failed" ELSE "report-successful")>>
    /\ UNCHANGED <<users, waitingPool, rooms, uuid, sockets, arrivals>>

Disconnect ==
  \E id \in Connected :
    /\ Becomes(handleDisconnect(Cur, id))
    /\ UNCHANGED <<sockets, pending, arrivals>>

Init ==
  /\ users = << >>
  /\ waitingPool = << >>
  /\ rooms = << >>
  /\ uuid = 0
  /\ sockets = 0
  /\ pending = [i \in ConnIds |-> 0]
  /\ emitted = << >>
  /\ arrivals = << >>

Next ==
  \/ Connection
  \/ StartSearching
  \/ StopSearching
  \/ SkipChat
  \/ StopChat
  \/ InitiateReport
  \/ ReportReturns
  \/ Disconnect

Spec == Init /\ [][Next]_vars

\* ------------------------------------------- searches in arrival order only
\* start-searching by a connection that is IDLE, with its arrival recorded
FirstSearch ==
  \E id \in Connected :
    /\ users[id].state = "IDLE"
    /\ Becomes(startSearching(Cur, id, ProfileOf(id)))
    /\ arrivals' = Append(arrivals, id)
    /\ UNCHANGED <<sockets, pending>>

FifoConnection == Accept(MaxSearchers)

NextFifo == FifoConnection \/ FirstSearch

SpecFifo == Init /\ [][NextFifo]_vars

\* -------------------------------------------------- a lone tryMatch pass
\* tryMatch as a function of the registries: the pool is any sequence of at
\* most MaxPool ids (stale and repeated ids included), every id is gone,
\* IDLE, SEARCHING, or one of the two members of a room that already exists
SearchingUser(id) ==
  [state |-> "SEARCHING", roomId |-> Undefined,
   profile |-> <<ProfileOf(id)>>, persistentId |-> <<ProfileOf(id).id>>]

ChattingUser(id, roomId) ==
  [state |-> "IN_CHAT", roomId |-> roomId,
   profile |-> <<ProfileOf(id)>>, persistentId |-> <<ProfileOf(id).id>>]

Pools == UNION {[1..n -> ConnIds] : n \in 0..MaxPool}

InitTryMatch ==
  \E shape \in [ConnIds -> {"gone", "IDLE", "SEARCHING"}],
     pair \in {<<>>} \cup {p \in ConnIds \X ConnIds : p[1] < p[2]} :
    LET chatting == IF pair = <<>> THEN {} ELSE {pair[1], pair[2]}
        live == {id \in ConnIds : shape[id] # "gone"} \cup chatting
    IN /\ users = [id \in live |->
                     IF id \in chatting THEN ChattingUser(id, 1)
                     ELSE IF shape[id] = "SEARCHING" THEN SearchingUser(id)
                     ELSE NewUser]
       /\ rooms = IF pair = <<>> THEN << >> ELSE (1 :> pair)
       /\ uuid = IF pair = <<>> THEN 0 ELSE 1
       /\ waitingPool \in Pools
       /\ arrivals = waitingPool
       /\ sockets = MaxConns
       /\ pending = [i \in ConnIds |-> 0]
       /\ emitted = << >>

TryMatchPass ==
  /\ Becomes(tryMatch(Cur))
  /\ UNCHANGED <<sockets, pending, arrivals>>

SpecTryMatch == InitTryMatch /\ [][TryMatchPass]_vars

\* ----------------------------------------------------- shared vocabulary
Members(r) == {rooms[r][1], rooms[r][2]}

NoDuplicates(pool) ==
  \A j, k \in 1..Len(pool) : pool[j] = pool[k] => j = k

\* a and b are paired with each other: two live users, both IN_CHAT with
\* the same roomId, and that room is registered and lists the two of them
Paired(a, b) ==
  /\ a # b
  /\ a \in DOMAIN users /\ b \in DOMAIN users
  /\ users[a].state = "IN_CHAT" /\ users[b].state = "IN_CHAT"
  /\ users[a].roomId = users[b].roomId
  /\ users[a].roomId \in DOMAIN rooms
  /\ Members(users[a].roomId) = {a, b}

\* ---------------------------------------------------------------- claims
\* C1: after every handler, every registered room has both members live,
\* IN_CHAT and carrying that room's id, and every IN_CHAT user's roomId
\* names a registered room that lists the user.
C1_RoomIffInChat ==
  /\ \A r \in DOMAIN rooms : \A m \in Members(r) :
       /\ m \in DOMAIN users
       /\ users[m].state = "IN_CHAT"
       /\ users[m].roomId = r
  /\ \A u \in DOMAIN users :
       users[u].state = "IN_CHAT" =>
         /\ users[u].roomId \in DOMAIN rooms
         /\ u \in Members(users[u].roomId)

\* C2: no connection id is in the Waiting Pool twice: not after a handler,
\* not after start-searching's enqueue by a user that is already SEARCHING,
\* and not after the partner requeue of disconnect, skip-chat, stop-chat or
\* initiate-report (the pool each of them hands to tryMatch).
C2_PoolHasNoDuplicates ==
  /\ NoDuplicates(waitingPool)
  /\ \A id \in Connected :
       /\ users[id].state = "SEARCHING" =>
            startSearchingEnqueue(Cur, id, ProfileOf(id)).waitingPool = waitingPool
       /\ NoDuplicates(disconnectCleanup(Cur, id).waitingPool)
       /\ ChatPartner(Cur, id) # Undefined =>
            /\ NoDuplicates(skipChatCleanup(Cur, id).waitingPool)
            /\ NoDuplicates(stopChatCleanup(Cur, id).waitingPool)
       /\ \A partnerId \in ConnIds :
            ReportValid(Cur, id, partnerId) =>
              NoDuplicates(reportCleanup(Cur, id, partnerId).waitingPool)

\* C3: initiate-report is accepted only when the reporter and the user named
\* by partnerId are paired with each other and both have a persistentId;
\* any other request changes no user, pool or room and emits nothing.
C3_ReportOnlyWhenPaired ==
  \A id \in Connected, partnerId \in ConnIds :
    LET legitimate == /\ Paired(id, partnerId)
                      /\ Truthy(users[id].persistentId)
                      /\ Truthy(users[partnerId].persistentId)
    IN /\ ReportValid(Cur, id, partnerId) => legitimate
       /\ ~legitimate => initiateReport(Cur, id, partnerId) = Cur

\* C4 as claimed: IDLE users have no roomId, no profile and no persistentId;
\* SEARCHING users have profile and persistentId and no roomId; IN_CHAT users
\* have a roomId.
C4_StateDeterminesFields ==
  \A u \in DOMAIN users :
    /\ users[u].state = "IDLE" =>
         /\ users[u].roomId = Undefined
         /\ users[u].profile = <<>>
         /\ users[u].persistentId = <<>>
    /\ users[u].state = "SEARCHING" =>
         /\ users[u].roomId = Undefined
         /\ users[u].profile # <<>>
         /\ users[u].persistentId # <<>>
    /\ users[u].state = "IN_CHAT" => users[u].roomId # Undefined

\* C4 amended: IDLE users have no roomId (the profile and persistentId of an
\* earlier search stay on the record); SEARCHING users have profile and
\* persistentId and no roomId; IN_CHAT users have a roomId.
C4_StateDeterminesRoomId ==
  \A u \in DOMAIN users :
    /\ users[u].state = "IDLE" => users[u].roomId = Undefined
    /\ users[u].state = "SEARCHING" =>
         /\ users[u].roomId = Undefined
         /\ users[u].profile # <<>>
         /\ users[u].persistentId # <<>>
    /\ users[u].state = "IN_CHAT" => users[u].roomId # Undefined

\* a user is back in IDLE and still carries the profile of its search
C4_Witness ==
  \E u \in DOMAIN users :
    /\ users[u].state = "IDLE"
    /\ users[u].profile # <<>>
    /\ users[u].persistentId # <<>>
    /\ \E v \in DOMAIN users : users[v].state = "IN_CHAT"
    /\ \E v \in DOMAIN users : users[v].state = "SEARCHING"

\* C5: for every room a tryMatch pass creates for two users a and b (a the
\* first of the room's pair), exactly one match-found goes to a and exactly
\* one to b; both carry the new roomId, each names the other as partnerId and
\* carries the other's profile; a, popped first (nearer the pool front), is
\* the initiator and b is not.
C5_MatchFoundPairs ==
  LET r == tryMatch(Cur)
      created == (DOMAIN r.rooms) \ (DOMAIN rooms)
      found(to) == {k \in 1..Len(r.emitted) :
                      r.emitted[k].name = "match-found" /\ r.emitted[k].to = to}
  IN \A roomId \in created :
       LET a == r.rooms[roomId][1]
           b == r.rooms[roomId][2]
       IN a # b =>
            /\ \E ka \in found(a), kb \in found(b) :
                 /\ found(a) = {ka}
                 /\ found(b) = {kb}
                 /\ r.emitted[ka] = [to |-> a, name |-> "match-found",
                                     roomId |-> roomId, partnerId |-> b,
                                     initiator |-> TRUE,
                                     partnerProfile |-> users[b].profile]
                 /\ r.emitted[kb] = [to |-> b, name |-> "match-found",
                                     roomId |-> roomId, partnerId |-> a,
                                     initiator |-> FALSE,
                                     partnerProfile |-> users[a].profile]
            /\ IndexOf(waitingPool, a) < IndexOf(waitingPool, b)

\* a pass has paired two users that were not next to each other in the pool
C5_Witness ==
  \E roomId \in DOMAIN rooms :
    LET a == rooms[roomId][1]
        b == rooms[roomId][2]
    IN /\ a # b
       /\ Len(arrivals) = 3
       /\ arrivals[1] = a /\ arrivals[3] = b
       /\ Len(emitted) = 2
       /\ emitted[1].name = "match-found" /\ emitted[1].to = a
       /\ emitted[1].initiator
       /\ emitted[2].name = "match-found" /\ emitted[2].to = b
       /\ ~emitted[2].initiator
       /\ emitted[1].roomId = roomId /\ emitted[2].roomId = roomId

\* C6: when connections only start searching (each once, from IDLE), the
\* k-th room pairs the (2k-1)-th and the 2k-th searcher, a lone last searcher
\* waits in the pool, and nobody is matched while an earlier searcher waits.
C6_FifoPairing ==
  /\ uuid = Len(arrivals) \div 2
  /\ \A k \in 1..uuid :
       /\ k \in DOMAIN rooms
       /\ rooms[k] = <<arrivals[2*k - 1], arrivals[2*k]>>
  /\ waitingPool = IF Len(arrivals) % 2 = 1
                   THEN <<arrivals[Len(arrivals)]>> ELSE << >>
  /\ \A i, j \in 1..Len(arrivals) :
       (i < j /\ users[arrivals[j]].state = "IN_CHAT") =>
         users[arrivals[i]].state = "IN_CHAT"

\* four searchers, not in connection order, ended in two rooms
C6_Witness ==
  /\ Len(arrivals) = 4
  /\ arrivals[1] > arrivals[3]
  /\ DOMAIN rooms = {1, 2}
  /\ rooms[1] = <<arrivals[1], arrivals[2]>>
  /\ rooms[2] = <<arrivals[3], arrivals[4]>>

\* C7: a tryMatch pass puts only live SEARCHING users into rooms; it ends
\* with fewer than two pool entries; of a pool without repeated ids it drops
\* the stale ids only, pairing the valid ones in pool order (the k-th new
\* room holds the (2k-1)-th and 2k-th valid id, an odd last one stays alone
\* in the pool); and on a pool of fewer than two entries it changes nothing
\* and emits nothing.
C7_TryMatchSkipsStale ==
  LET r == tryMatch(Cur)
      created == (DOMAIN r.rooms) \ (DOMAIN rooms)
      valid == SelectSeq(waitingPool, LAMBDA id : IsSearching(users, id))
      pairs == Len(valid) \div 2
  IN /\ \A roomId \in created : \A k \in 1..2 :
          /\ r.rooms[roomId][k] \in DOMAIN users
          /\ users[r.rooms[roomId][k]].state = "SEARCHING"
     /\ Len(r.waitingPool) < 2
     /\ NoDuplicates(waitingPool) =>
          /\ created = {uuid + k : k \in 1..pairs}
          /\ \A k \in 1..pairs :
               r.rooms[uuid + k] = <<valid[2*k - 1], valid[2*k]>>
          /\ Len(valid) % 2 = 1 => r.waitingPool = <<valid[Len(valid)]>>
     /\ Len(waitingPool) < 2 => r = Cur

\* a pass met a stale id between two searchers and paired the two searchers
C7_Witness ==
  /\ Len(arrivals) = 3
  /\ arrivals[1] # arrivals[3]
  /\ arrivals[2] \notin DOMAIN users
  /\ arrivals[1] \in DOMAIN users /\ arrivals[3] \in DOMAIN users
  /\ waitingPool = << >>
  /\ \E roomId \in DOMAIN rooms : rooms[roomId] = <<arrivals[1], arrivals[3]>>
  /\ Len(emitted) = 2

\* C8: when a, paired with b, disconnects: b is SEARCHING and first in the
\* pool handed to tryMatch; a is gone afterwards; a user c that was waiting
\* is paired with b by that same handler (b first), leaving the pool empty;
\* with nobody waiting b stays alone at the pool front, and whoever starts
\* searching next is paired with b.
C8_DisconnectRequeuesPartnerFirst ==
  \A a \in Connected, b \in ConnIds :
    Paired(a, b) =>
      LET q == disconnectCleanup(Cur, a)
          r == handleDisconnect(Cur, a)
      IN /\ q.users[b].state = "SEARCHING"
         /\ Len(q.waitingPool) > 0
         /\ q.waitingPool[1] = b
         /\ a \notin DOMAIN r.users
         /\ \A c \in ConnIds :
              Includes(waitingPool, c) =>
                /\ (uuid + 1) \in DOMAIN r.rooms
                /\ r.rooms[uuid + 1] = <<b, c>>
                /\ r.users[b].state = "IN_CHAT"
                /\ r.users[c].state = "IN_CHAT"
                /\ r.waitingPool = << >>
         /\ waitingPool = << >> =>
              /\ r.waitingPool = <<b>>
              /\ r.users[b].state = "SEARCHING"
              /\ \A d \in DOMAIN r.users :
                   r.users[d].state = "IDLE" =>
                     LET t == startSearching(r, d, ProfileOf(d))
                     IN /\ (uuid + 1) \in DOMAIN t.rooms
                        /\ t.rooms[uuid + 1] = <<b, d>>

\* two of three connections are left: the third one's disconnect requeued
\* its partner, which was paired at once with the user that was waiting
C8_Witness ==
  /\ sockets = 3
  /\ Cardinality(DOMAIN users) = 2
  /\ waitingPool = << >>
  /\ Len(emitted) = 4
  /\ \E b, c \in DOMAIN users :
       /\ b # c
       /\ emitted[1] = Msg(b, "partner-disconnected")
       /\ emitted[2] = Msg(b, "auto-searching")
       /\ emitted[3].name = "match-found" /\ emitted[3].to = b
       /\ emitted[3].partnerId = c /\ emitted[3].initiator
       /\ emitted[4].name = "match-found" /\ emitted[4].to = c
       /\ Paired(b, c)

\* C9: when x, paired with y, sends skip-chat: y is sent partner-disconnected
\* and later auto-searching, x is sent auto-searching, the old room is gone,
\* the pool handed to tryMatch has y first and x last, and a user z that was
\* waiting is paired with y (y first) while x is left alone in the pool.
C9_SkipChatRequeuesBoth ==
  \A x \in Connected, y \in ConnIds :
    Paired(x, y) =>
      LET q == skipChatCleanup(Cur, x)
          r == skipChat(Cur, x)
          at(to, name) == {k \in 1..Len(r.emitted) : r.emitted[k] = Msg(to, name)}
      IN /\ \E i \in at(y, "partner-disconnected"), j \in at(y, "auto-searching") :
              /\ i < j
              /\ at(y, "partner-disconnected") = {i}
              /\ at(y, "auto-searching") = {j}
         /\ Cardinality(at(x, "auto-searching")) = 1
         /\ at(x, "partner-disconnected") = {}
         /\ users[x].roomId \notin DOMAIN r.rooms
         /\ q.users[x].state = "SEARCHING"
         /\ q.users[y].state = "SEARCHING"
         /\ q.waitingPool[1] = y
         /\ q.waitingPool[Len(q.waitingPool)] = x
         /\ \A z \in ConnIds :
              Includes(waitingPool, z) =>
                /\ (uuid + 1) \in DOMAIN r.rooms
                /\ r.rooms[uuid + 1] = <<y, z>>
                /\ r.users[y].state = "IN_CHAT"
                /\ r.users[z].state = "IN_CHAT"
                /\ r.users[x].state = "SEARCHING"
                /\ r.waitingPool = <<x>>

\* a skip-chat was served while a third user waited: the skipped partner and
\* the third user are now paired and the skipping user waits
C9_Witness ==
  /\ Len(emitted) = 5
  /\ Len(waitingPool) = 1
  /\ \E y, z \in DOMAIN users :
       LET x == waitingPool[1]
       IN /\ emitted[1] = Msg(y, "partner-disconnected")
          /\ emitted[2] = Msg(x, "auto-searching")
          /\ emitted[3] = Msg(y, "auto-searching")
          /\ emitted[4].name = "match-found" /\ emitted[4].to = y
          /\ emitted[4].partnerId = z /\ emitted[4].initiator
          /\ emitted[5].name = "match-found" /\ emitted[5].to = z
          /\ Paired(y, z)
          /\ users[x].state = "SEARCHING"

\* C10, before the await: a report by x against its partner y is accepted;
\* the room is gone, x is IDLE, y is SEARCHING and first in the pool handed to
\* tryMatch, tryMatch has run (y is alone at the pool front or first member
\* of a new room), and neither report-successful nor report-failed is out.
C10_CleanupBeforeAwait ==
  \A x \in Connected, y \in ConnIds :
    Paired(x, y) =>
      LET q == reportCleanup(Cur, x, y)
          r == initiateReport(Cur, x, y)
      IN /\ ReportValid(Cur, x, y)
         /\ users[x].roomId \notin DOMAIN r.rooms
         /\ r.users[x].state = "IDLE"
         /\ r.users[x].roomId = Undefined
         /\ q.users[y].state = "SEARCHING"
         /\ q.waitingPool[1] = y
         /\ Len(r.waitingPool) < 2
         /\ \/ r.waitingPool = <<y>> /\ r.users[y].state = "SEARCHING"
            \/ /\ r.waitingPool = << >>
               /\ (uuid + 1) \in DOMAIN r.rooms
               /\ r.rooms[uuid + 1][1] = y
               /\ r.users[y].roomId = uuid + 1
         /\ \A k \in 1..Len(r.emitted) :
              r.emitted[k].name \notin {"report-successful", "report-failed"}

\* C10, the steps: a handler that accepts a report (the only one that opens
\* with two partner-disconnected) either starts one awaited call of the
\* reporter and emits no verdict, or (missing screenshot) emits report-failed
\* to the reporter at once; a step that settles an awaited call emits exactly
\* one verdict, to the reporter, and changes no user, pool or room; no other
\* step emits a verdict.
C10_VerdictStep ==
  LET verdicts == {k \in 1..Len(emitted') :
                     emitted'[k].name \in {"report-successful", "report-failed"}}
      accepted == /\ Len(emitted') >= 2
                  /\ emitted'[1].name = "partner-disconnected"
                  /\ emitted'[2].name = "partner-disconnected"
      settled == PendingTotal(pending') < PendingTotal(pending)
  IN /\ accepted =>
          LET x == emitted'[2].to
          IN \/ /\ pending' = [pending EXCEPT ![x] = @ + 1]
                /\ verdicts = {}
             \/ /\ pending' = pending
                /\ verdicts = {Len(emitted')}
                /\ emitted'[Len(emitted')] = Msg(x, "report-failed")
     /\ settled =>
          /\ UNCHANGED <<users, waitingPool, rooms, uuid>>
          /\ \E x \in ConnIds :
               /\ pending' = [pending EXCEPT ![x] = @ - 1]
               /\ \/ emitted' = <<Msg(x, "report-successful")>>
                  \/ emitted' = <<Msg(x, "report-failed")>>
     /\ verdicts # {} => accepted \/ settled

\* C10: the cleanup of an accepted report is complete before the await, and
\* exactly one verdict follows, to the reporter only, changing no state.
C10_ReportCleanupThenVerdict ==
  [](C10_CleanupBeforeAwait) /\ [][C10_VerdictStep]_vars

\* a verdict has just been delivered for a reporter that is IDLE while its
\* reported partner has been paired again with another user
C10_Witness ==
  /\ Len(emitted) = 1
  /\ emitted[1].name \in {"report-successful", "report-failed"}
  /\ \A i \in ConnIds : pending[i] = 0
  /\ emitted[1].to \in DOMAIN users
  /\ users[emitted[1].to].state = "IDLE"
  /\ \E y, z \in DOMAIN users : Paired(y, z) /\ rooms[users[y].roomId][1] = y
                                /\ uuid = 2

\* C11: an event that the sender's state does not allow is ignored:
\* start-searching from IN_CHAT, stop-searching from IDLE or IN_CHAT, and
\* skip-chat or stop-chat from IDLE or SEARCHING leave users, pool and rooms
\* as they are and emit nothing.
C11_InvalidStateIgnored ==
  \A id \in Connected :
    /\ users[id].state = "IN_CHAT" =>
         startSearching(Cur, id, ProfileOf(id)) = Cur
    /\ users[id].state \in {"IDLE", "IN_CHAT"} =>
         stopSearching(Cur, id) = Cur
    /\ users[id].state \in {"IDLE", "SEARCHING"} =>
         /\ skipChat(Cur, id) = Cur
         /\ stopChat(Cur, id) = Cur

\* an IDLE user that searched before, a waiting user and a pair are present,
\* and the last handler emitted nothing
C11_Witness ==
  /\ emitted = << >>
  /\ \E i, w, a, b \in DOMAIN users :
       /\ users[i].state = "IDLE" /\ users[i].profile # << >>
       /\ users[w].state = "SEARCHING" /\ waitingPool = <<w>>
       /\ Paired(a, b)

\* C12: when x, paired with y, sends stop-chat: x is IDLE without roomId and
\* not in the pool, the old room is gone, y was SEARCHING and first in the
\* pool handed to tryMatch, and y ends alone at the pool front or IN_CHAT
\* with the user that was waiting, never with x.
C12_StopChatDisposition ==
  \A x \in Connected, y \in ConnIds :
    Paired(x, y) =>
      LET q == stopChatCleanup(Cur, x)
          r == stopChat(Cur, x)
      IN /\ r.users[x].state = "IDLE"
         /\ r.users[x].roomId = Undefined
         /\ ~Includes(r.waitingPool, x)
         /\ users[x].roomId \notin DOMAIN r.rooms
         /\ q.users[y].state = "SEARCHING"
         /\ q.waitingPool[1] = y
         /\ r.users[y].state = "IN_CHAT" =>
              /\ r.users[y].roomId \in DOMAIN r.rooms
              /\ r.rooms[r.users[y].roomId][1] # x
              /\ r.rooms[r.users[y].roomId][2] # x
         /\ waitingPool = << >> =>
              /\ r.waitingPool = <<y>>
              /\ r.users[y].state = "SEARCHING"
         /\ \A z \in ConnIds :
              Includes(waitingPool, z) =>
                /\ z # x
                /\ r.waitingPool = << >>
                /\ (uuid + 1) \in DOMAIN r.rooms
                /\ r.rooms[uuid + 1] = <<y, z>>
                /\ r.users[y].state = "IN_CHAT"
                /\ r.users[y].roomId = uuid + 1

\* all three connections are live: one stopped its chat and is IDLE, its
\* partner was requeued and paired at once with the user that was waiting
C12_Witness ==
  /\ sockets = 3
  /\ Cardinality(DOMAIN users) = 3
  /\ waitingPool = << >>
  /\ Len(emitted) = 4
  /\ \E x, y, z \in DOMAIN users :
       /\ emitted[1] = Msg(y, "partner-disconnected")
       /\ emitted[2] = Msg(y, "auto-searching")
       /\ emitted[3].name = "match-found" /\ emitted[3].to = y
       /\ emitted[3].partnerId = z /\ emitted[3].initiator
       /\ emitted[4].name = "match-found" /\ emitted[4].to = z
       /\ Paired(y, z)
       /\ users[x].state = "IDLE" /\ users[x].roomId = Undefined
       /\ users[x].profile # << >>

\* C13: when x, paired with y, ends the chat by skip-chat, by stop-chat or by
\* initiate-report against y, the handler sends partner-disconnected to y and
\* also sends some notification to x.
C13_BothSidesNotified ==
  \A x \in Connected, y \in ConnIds :
    Paired(x, y) =>
      LET told(r, to) == \E k \in 1..Len(r.emitted) : r.emitted[k].to = to
          partnerTold(r) == \E k \in 1..Len(r.emitted) :
                              r.emitted[k] = Msg(y, "partner-disconnected")
      IN /\ partnerTold(skipChat(Cur, x)) /\ told(skipChat(Cur, x), x)
         /\ partnerTold(stopChat(Cur, x)) /\ told(stopChat(Cur, x), x)
         /\ partnerTold(initiateReport(Cur, x, y))
         /\ told(initiateReport(Cur, x, y), x)

\* C14: a connection id whose disconnect has been handled is referenced
\* nowhere: it is not in the registry, not in the pool and in no room.
C14_NoReferenceAfterDisconnect ==
  \A id \in 1..sockets :
    id \notin DOMAIN users =>
      /\ ~Includes(waitingPool, id)
      /\ \A r \in DOMAIN rooms : id \notin Members(r)

\* C15: a step in which a SEARCHING connection disconnects removes it from
\* the registry and the pool, emits nothing, and changes no other user and
\* no room.
C15_SearchingDisconnectStep ==
  \A id \in DOMAIN users :
    (users[id].state = "SEARCHING" /\ id \notin DOMAIN users') =>
      /\ emitted' = << >>
      /\ rooms' = rooms
      /\ DOMAIN users' = (DOMAIN users) \ {id}
      /\ \A other \in DOMAIN users' : users'[other] = users[other]
      /\ ~Includes(waitingPool', id)
      /\ waitingPool' = SelectSeq(waitingPool, LAMBDA w : w # id)

C15_SearchingDisconnect == [][C15_SearchingDisconnectStep]_vars

\* a connection is gone, nothing was emitted, and a pair and an IDLE user
\* stand by untouched
C15_Witness ==
  /\ emitted = << >>
  /\ waitingPool = << >>
  /\ sockets = 4
  /\ Cardinality(DOMAIN users) = 3
  /\ \E a, b, i \in DOMAIN users :
       /\ Paired(a, b)
       /\ users[i].state = "IDLE"
       /\ users[i].profile = << >>

\* C16: after every handler the Waiting Pool holds at most one id.
C16_PoolAtMostOne == Len(waitingPool) <= 1

\* one user waits while two others are paired: the pool is not drained
\* because it is empty, but because the Matchmaker ran
C16_Witness ==
  /\ Len(waitingPool) = 1
  /\ Len(emitted) >= 2
  /\ emitted[Len(emitted)].name = "match-found"
  /\ \E a, b \in DOMAIN users : Paired(a, b)

\* C17: after every handler an id is in the Waiting Pool if and only if it
\* maps to a live user whose state is SEARCHING.
C17_PoolIffSearching ==
  /\ \A k \in 1..Len(waitingPool) : IsSearching(users, waitingPool[k])
  /\ \A id \in DOMAIN users :
       users[id].state = "SEARCHING" => Includes(waitingPool, id)

\* a waiting user's partner-to-be has gone: one user is SEARCHING and in the
\* pool, another connection has left, a third is back in IDLE
C17_Witness ==
  /\ Len(waitingPool) = 1
  /\ users[waitingPool[1]].state = "SEARCHING"
  /\ Cardinality(DOMAIN users) < sockets
  /\ \E i \in DOMAIN users : users[i].state = "IDLE" /\ users[i].profile # << >>

\* C18: every room has two distinct members and no id is a member of two
\* rooms.
C18_NoSelfOrDoublePairing ==
  /\ \A r \in DOMAIN rooms : rooms[r][1] # rooms[r][2]
  /\ \A r1, r2 \in DOMAIN rooms :
       r1 # r2 => Members(r1) \cap Members(r2) = {}

\* C19: when x, paired with y, sends skip-chat and nobody is waiting, the
\* same handler pairs them again in a new room with y first: both are
\* IN_CHAT in it, y is told to initiate and x is not.
C19_SkipChatRepairsAlone ==
  \A x \in Connected, y \in ConnIds :
    (Paired(x, y) /\ waitingPool = << >>) =>
      LET r == skipChat(Cur, x)
          new == uuid + 1
      IN /\ new \in DOMAIN r.rooms
         /\ r.rooms[new] = <<y, x>>
         /\ r.users[x].state = "IN_CHAT" /\ r.users[x].roomId = new
         /\ r.users[y].state = "IN_CHAT" /\ r.users[y].roomId = new
         /\ r.waitingPool = << >>
         /\ Len(r.emitted) = 5
         /\ r.emitted[4] = [to |-> y, name |-> "match-found", roomId |-> new,
                            partnerId |-> x, initiator |-> TRUE,
                            partnerProfile |-> users[x].profile]
         /\ r.emitted[5] = [to |-> x, name |-> "match-found", roomId |-> new,
                            partnerId |-> y, initiator |-> FALSE,
                            partnerProfile |-> users[y].profile]

\* a skip-chat with nobody waiting has just paired the same two users again
C19_Witness ==
  /\ Len(emitted) = 5
  /\ waitingPool = << >>
  /\ \E x, y \in DOMAIN users :
       /\ emitted[1] = Msg(y, "partner-disconnected")
       /\ emitted[2] = Msg(x, "auto-searching")
       /\ emitted[3] = Msg(y, "auto-searching")
       /\ emitted[4].name = "match-found" /\ emitted[4].to = y
       /\ emitted[4].partnerId = x /\ emitted[4].initiator
       /\ emitted[5].name = "match-found" /\ emitted[5].to = x
       /\ ~emitted[5].initiator
       /\ Paired(x, y)
       /\ rooms[users[x].roomId] = <<y, x>>

\* C20: every IN_CHAT user can leave by itself: its skip-chat takes it to
\* SEARCHING or into another room, and its stop-chat takes it to IDLE.
C20_InChatCanLeave ==
  \A id \in DOMAIN users :
    users[id].state = "IN_CHAT" =>
      /\ LET r == skipChat(Cur, id)
         IN \/ r.users[id].state = "SEARCHING"
            \/ r.users[id].state = "IN_CHAT" /\ r.users[id].roomId # users[id].roomId
      /\ stopChat(Cur, id).users[id].state = "IDLE"
====
